---- MODULE Spec2Model ----
(***************************************************************************)
(* Model of the anti_virus scanner (src/src/main.rs): loading the          *)
(* signature database (FileCompare::new / read_signatures), the parallel   *)
(* directory scan (RecFileSearch::start over WalkDir + par_bridge), the    *)
(* prefix match (FileCompare::compare) and the log channel with its single *)
(* consumer thread (LOG_CHANNEL, start_logging_thread, write_to_log).      *)
(*                                                                         *)
(* Text is modelled as a sequence of one-character strings, file contents  *)
(* as a sequence of bytes (0..255).  Durations are left out.               *)
(***************************************************************************)
EXTENDS Integers, Sequences, FiniteSets, TLC

\* Number of rayon pool threads that run the par_bridge closure.
NumWorkers == 2
\* How many times a caller that scans again invokes RecFileSearch::start.
MaxScans == 2

Workers == 1..NumWorkers
\* The thread that runs main() and calls start(); it also sends log messages.
MainThread == 0

-----------------------------------------------------------------------------
(* Signature database text: line.split('=') and hex::decode                *)

\* A split at the first '=' only (splitn(2, '=')).
SplitFirst(line) ==
    IF \A i \in DOMAIN line : line[i] # "=" THEN <<line>>
    ELSE LET k == CHOOSE i \in DOMAIN line :
                      line[i] = "=" /\ \A j \in 1..(i - 1) : line[j] # "="
         IN  <<SubSeq(line, 1, k - 1), SubSeq(line, k + 1, Len(line))>>

\* line.split('=').collect(): the pieces between the '=' characters.
RECURSIVE Split(_)
Split(line) ==
    IF line = <<>> THEN << <<>> >>
    ELSE IF Head(line) = "=" THEN << <<>> >> \o Split(Tail(line))
    ELSE LET rest == Split(Tail(line))
         IN  << <<Head(line)>> \o rest[1] >> \o Tail(rest)

EmptyMap == [k \in {} |-> <<>>]

\* An insert that keeps the value of a key that is already present.
MapInsertKeepFirst(m, k, v) ==
    [x \in DOMAIN m \cup {k} |-> IF x \in DOMAIN m THEN m[x] ELSE v]

\* HashMap::insert: the value of an existing key is overwritten.
MapInsert(m, k, v) == [x \in DOMAIN m \cup {k} |-> IF x = k THEN v ELSE m[x]]

\* The loop of read_signatures: only lines with exactly two parts are kept.
RECURSIVE ReadLines(_, _)
ReadLines(lines, db) ==
    IF lines = <<>> THEN db
    ELSE LET parts == Split(Head(lines))
         IN  ReadLines(Tail(lines),
                       IF Len(parts) = 2 THEN MapInsert(db, parts[1], parts[2])
                                         ELSE db)

\* The value of one hex digit (hex::decode accepts both cases).
HexDigit ==
    "0" :> 0 @@ "1" :> 1 @@ "2" :> 2 @@ "3" :> 3 @@ "4" :> 4 @@ "5" :> 5 @@
    "6" :> 6 @@ "7" :> 7 @@ "8" :> 8 @@ "9" :> 9 @@
    "a" :> 10 @@ "b" :> 11 @@ "c" :> 12 @@ "d" :> 13 @@ "e" :> 14 @@ "f" :> 15 @@
    "A" :> 10 @@ "B" :> 11 @@ "C" :> 12 @@ "D" :> 13 @@ "E" :> 14 @@ "F" :> 15

\* A byte from its two digits, high digit first.
ByteOf(hi, lo) == 16 * HexDigit[hi] + HexDigit[lo]

\* hex::decode: Err on an odd length or a character that is no hex digit.
HexDecode(s) ==
    IF Len(s) % 2 # 0 \/ \E i \in 1..Len(s) : s[i] \notin DOMAIN HexDigit
    THEN [ok |-> FALSE, bytes |-> <<>>]
    ELSE [ok |-> TRUE,
          bytes |-> [i \in 1..(Len(s) \div 2) |-> ByteOf(s[2 * i - 1], s[2 * i])]]

\* A comparison with the two slices exchanged.
StartsWithSwapped(bytes, prefix) ==
    /\ Len(bytes) <= Len(prefix)
    /\ \A i \in 1..Len(bytes) : prefix[i] = bytes[i]

\* <[u8]>::starts_with
StartsWith(bytes, prefix) ==
    /\ Len(prefix) <= Len(bytes)
    /\ \A i \in 1..Len(prefix) : bytes[i] = prefix[i]

\* The loop of compare without its break: the last matching signature stays.
RECURSIVE CompareLoopNoBreak(_, _, _)
CompareLoopNoBreak(order, db, bytes) ==
    IF order = <<>> THEN [kind |-> "none", name |-> <<>>]
    ELSE LET sig == HexDecode(db[Head(order)])
             rest == CompareLoopNoBreak(Tail(order), db, bytes)
         IN  IF ~sig.ok THEN [kind |-> "panic", name |-> <<>>]
             ELSE IF rest.kind # "none" THEN rest
             ELSE IF StartsWith(bytes, sig.bytes)
                  THEN [kind |-> "match", name |-> Head(order)]
                  ELSE rest

\* The loop of compare over the database in its iteration order: panics on an
\* undecodable signature, stops at the first signature that is a prefix.
RECURSIVE CompareLoop(_, _, _)
CompareLoop(order, db, bytes) ==
    IF order = <<>> THEN [kind |-> "none", name |-> <<>>]
    ELSE LET sig == HexDecode(db[Head(order)])
         IN  IF ~sig.ok THEN [kind |-> "panic", name |-> <<>>]
             ELSE IF StartsWith(bytes, sig.bytes)
                  THEN [kind |-> "match", name |-> Head(order)]
                  ELSE CompareLoop(Tail(order), db, bytes)

\* The iteration orders a hash map with key set S can have.
Orders(S) ==
    {o \in [1..Cardinality(S) -> S] : \A i, j \in DOMAIN o : i # j => o[i] # o[j]}

-----------------------------------------------------------------------------
(* Inputs: database files and directory trees                              *)

L_x41 == <<"x", "=", "4", "1">>
L_x42 == <<"x", "=", "4", "2">>
L_x4g == <<"x", "=", "4", "g">>
L_xEmpty == <<"x", "=">>
L_y42 == <<"y", "=", "4", "2">>
L_y4142 == <<"y", "=", "4", "1", "4", "2">>
L_y4 == <<"y", "=", "4">>
L_noEq == <<"x">>
L_twoEq == <<"z", "=", "4", "=", "1">>

\* The signature database files the runs are started with (sequences of lines).
Databases ==
    { <<L_x41>>,
      <<L_x41, L_y4142>>,
      <<L_x41, L_x42>>,
      <<L_x4g>>,
      <<L_x41, L_y4>>,
      <<L_xEmpty>>,
      <<L_noEq, <<>>, L_twoEq, L_y42>> }

\* The entries WalkDir yields: Ok(DirEntry) of a directory, a regular file
\* (with its contents, or unreadable), another kind of entry, or Err.
DirEntry(p) == [path |-> p, kind |-> "dir", bytes |-> <<>>, readable |-> TRUE]
FileEntry(p, b) == [path |-> p, kind |-> "file", bytes |-> b, readable |-> TRUE]
UnreadableEntry(p) == [path |-> p, kind |-> "file", bytes |-> <<>>, readable |-> FALSE]
OtherEntry(p) == [path |-> p, kind |-> "other", bytes |-> <<>>, readable |-> TRUE]
ErrEntry == [path |-> "", kind |-> "error", bytes |-> <<>>, readable |-> FALSE]

\* The directory trees scanned, as the sequence WalkDir yields (root first).
Trees ==
    { <<DirEntry("d"), FileEntry("d/a", <<65, 66>>), FileEntry("d/b", <<66>>)>>,
      <<DirEntry("d"), FileEntry("d/a", <<66, 65>>), UnreadableEntry("d/b")>>,
      <<DirEntry("d"), FileEntry("d/a", <<>>), OtherEntry("d/l")>>,
      <<ErrEntry>> }

\* A directory with more files than pool threads.
WideTree ==
    <<DirEntry("d"), FileEntry("d/a", <<65>>), FileEntry("d/b", <<66, 65>>),
      FileEntry("d/c", <<65, 66, 67>>)>>

\* The database and tree main is run with.
Inputs ==
    (Databases \X Trees) \cup {<< <<L_x41, L_y4142>>, WideTree >>}

\* The database and tree a caller that scans repeatedly is run with: a root
\* that is a single file, or a directory with one file.
RescanInputs ==
    (Databases \X {<<FileEntry("f", <<65, 66>>)>>})
        \cup {<< <<L_x41, L_y4142>>, <<DirEntry("d"), FileEntry("d/a", <<65, 66>>)>> >>}

-----------------------------------------------------------------------------
VARIABLES
    dbLines,       \* the lines of the signature database file
    tree,          \* the entries of the scanned directory, in WalkDir order
    startCalls,    \* how many times the caller invokes start on the scanner
    mainPc,        \* where main() is
    database,      \* FileCompare.database
    iterOrder,     \* the order in which `&self.database` iterates
    risk_files,    \* FileCompare.risk_files
    found_files,   \* RecFileSearch.found_files
    found_dirs,    \* RecFileSearch.found_dirs
    walk,          \* the entries the WalkDir iterator has not yielded yet
    pc,            \* where each pool thread is in the for_each closure
    cur,           \* the entry each pool thread is processing
    panicMsg,      \* why a pool thread panicked
    testerHolder,  \* the threads holding the `tester` mutex (at most one)
    poisoned,      \* whether the `tester` mutex is poisoned
    channel,       \* LOG_CHANNEL: messages sent and not yet received
    writer,        \* the lines the consumer has written to performance.log
    consumerPc,    \* the thread spawned by start_logging_thread
    sent,          \* per sending thread, how many messages it has sent
    lateSend,      \* whether a message was sent after the consumer thread died
    scans,         \* how many calls of start have returned
    observed,      \* get_risk_files() as seen after each return of start
    riskLog        \* the lines of risk_files.log

vars == <<dbLines, tree, startCalls, mainPc, database, iterOrder, risk_files, found_files,
          found_dirs, walk, pc, cur, panicMsg, testerHolder, poisoned, channel,
          writer, consumerPc, sent, lateSend, scans, observed, riskLog>>

inputVars == <<dbLines, tree, startCalls>>
storeVars == <<database, iterOrder>>
listVars == <<found_files, found_dirs>>
workerVars == <<walk, pc, cur, panicMsg, testerHolder, poisoned>>
logVars == <<channel, writer, consumerPc, sent, lateSend>>
driverVars == <<scans, observed, riskLog>>

NoEntry == [path |-> "", kind |-> "none", bytes |-> <<>>, readable |-> FALSE]

\* The state before main runs, for a caller that invokes start `calls` times
\* with one of `inputs`.
InitWith(calls, inputs) ==
    /\ \E in \in inputs : dbLines = in[1] /\ tree = in[2]
    /\ startCalls = calls
    /\ mainPc = "new"
    /\ database = EmptyMap
    /\ iterOrder = <<>>
    /\ risk_files = EmptyMap
    /\ found_files = <<>>
    /\ found_dirs = <<>>
    /\ walk = <<>>
    /\ pc = [w \in Workers |-> "parked"]
    /\ cur = [w \in Workers |-> NoEntry]
    /\ panicMsg = [w \in Workers |-> "none"]
    /\ testerHolder = {}
    /\ poisoned = FALSE
    /\ channel = <<>>
    /\ writer = <<>>
    /\ consumerPc = "none"
    /\ sent = [t \in Workers \cup {MainThread} |-> 0]
    /\ lateSend = FALSE
    /\ scans = 0
    /\ observed = <<>>
    /\ riskLog = {}

\* main calls start once.
Init == InitWith(1, Inputs)

\* A caller that scans the same directory MaxScans times with one scanner.
InitRescan == InitWith(MaxScans, RescanInputs)

\* The process is gone once main has returned or panicked.
Terminated == {"exited", "loadFailed", "reportFailed", "createPanic", "scanPanic", "sendPanic"}
ProcessAlive == mainPc \notin Terminated

-----------------------------------------------------------------------------
(* main: FileCompare::new, RecFileSearch::new, start_logging_thread        *)

\* FileCompare::new: read_signatures fails only when the file cannot be opened
\* or read; otherwise every line is split and the two-part lines are stored.
\* The hex text is stored as it is and is not decoded here.
FileCompareNew ==
    /\ mainPc = "new"
    /\ \E openOk \in BOOLEAN :
         IF openOk
         THEN /\ database' = ReadLines(dbLines, EmptyMap)
              /\ iterOrder' \in Orders(DOMAIN database')
              /\ mainPc' = "loaded"
         ELSE /\ mainPc' = "loadFailed"
              /\ UNCHANGED storeVars
    /\ risk_files' = EmptyMap
    /\ UNCHANGED <<inputVars, listVars, workerVars, logVars, driverVars>>

\* RecFileSearch::new: empty lists, the comparer behind its mutex.
RecFileSearchNew ==
    /\ mainPc = "loaded"
    /\ found_files' = <<>>
    /\ found_dirs' = <<>>
    /\ testerHolder' = {}
    /\ poisoned' = FALSE
    /\ mainPc' = "constructed"
    /\ UNCHANGED <<inputVars, storeVars, risk_files, walk, pc, cur, panicMsg,
                   logVars, driverVars>>

\* start_logging_thread: File::create(..).unwrap() panics in main when the log
\* file cannot be created; otherwise the consumer thread is spawned.
StartLoggingThread ==
    /\ mainPc = "constructed"
    /\ \E createOk \in BOOLEAN :
         IF createOk
         THEN /\ consumerPc' = "running"
              /\ mainPc' = "logging"
         ELSE /\ mainPc' = "createPanic"
              /\ UNCHANGED consumerPc
    /\ UNCHANGED <<inputVars, storeVars, risk_files, listVars, workerVars,
                   channel, writer, sent, lateSend, driverVars>>

-----------------------------------------------------------------------------
(* The log channel                                                         *)

\* A receiver owned by the consumer thread: gone when that thread has died.
ReceiverOwnedByConsumer(c) == c # "panicked"

\* Whether LOG_CHANNEL still has its receiver: the static holds both ends for
\* the whole process, whatever state the consumer thread is in.
ReceiverAlive(c) == TRUE

\* The message write_to_log formats: "{directory}: {message}"; `from` and `seq`
\* identify the sending thread and its send count.
LogMessage(t, what, path) ==
    [from |-> t, seq |-> sent[t] + 1, text |-> <<tree[1].path, what, path>>]

\* Taking the newest message of the queue.
RecvNewest(q) == [msg |-> q[Len(q)], rest |-> SubSeq(q, 1, Len(q) - 1)]

\* Receiver::recv on a non-empty queue: the oldest message.
Recv(q) == [msg |-> Head(q), rest |-> Tail(q)]

\* log_sender.send(..): the message joins the queue (the channel is unbounded).
Send(t, what, path) ==
    /\ channel' = Append(channel, LogMessage(t, what, path))
    /\ sent' = [sent EXCEPT ![t] = @ + 1]
    /\ lateSend' = (lateSend \/ consumerPc = "panicked")

\* Whether LOG_CHANNEL still has a sender: the static holds the Sender for the
\* whole process, so the channel is never disconnected.
SenderAlive == TRUE

\* The loop of the consumer thread: recv blocks on an empty channel and
\* returns Err, ending the loop, only when no sender is left; a received
\* message is written by writeln!(..).unwrap(), which panics in that thread
\* when the write fails.
ConsumerStep ==
    /\ ProcessAlive
    /\ consumerPc = "running"
    /\ IF channel # <<>>
       THEN /\ channel' = Recv(channel).rest
            /\ \E writeOk \in BOOLEAN :
                 IF writeOk
                 THEN /\ writer' = Append(writer, Recv(channel).msg)
                      /\ UNCHANGED consumerPc
                 ELSE /\ consumerPc' = "panicked"
                      /\ UNCHANGED writer
       ELSE /\ ~SenderAlive
            /\ consumerPc' = "ended"
            /\ UNCHANGED <<channel, writer>>
    /\ UNCHANGED <<inputVars, mainPc, storeVars, risk_files, listVars,
                   workerVars, sent, lateSend, driverVars>>

-----------------------------------------------------------------------------
(* RecFileSearch::start                                                    *)

\* A store that forgets what was appended before.
PushReplacing(list, x) == <<x>>

\* Vec::push under the list's mutex.
Push(list, x) == Append(list, x)

\* An insert that drops the key when it is already present.
RiskInsertToggle(m, k, v) ==
    IF k \in DOMAIN m THEN [x \in DOMAIN m \ {k} |-> m[x]] ELSE MapInsert(m, k, v)

\* self.risk_files.insert(path, name)
RiskInsert(m, k, v) == MapInsert(m, k, v)

\* A pool thread panics: it leaves the closure for good, with a message.
Panic(w, why) ==
    /\ pc' = [pc EXCEPT ![w] = "panicked"]
    /\ panicMsg' = [panicMsg EXCEPT ![w] = why]

\* start is called: WalkDir::new(directory).into_iter().par_bridge().for_each
\* hands the entries to the pool threads.
StartCall ==
    /\ mainPc \in {"logging", "returned"}
    /\ scans < startCalls
    /\ walk' = tree
    /\ pc' = [w \in Workers |-> "idle"]
    /\ cur' = [w \in Workers |-> NoEntry]
    /\ mainPc' = "scanning"
    /\ UNCHANGED <<inputVars, storeVars, risk_files, listVars, panicMsg,
                   testerHolder, poisoned, logVars, driverVars>>

\* A pool thread takes the next entry of the shared iterator and enters the
\* closure: entry.expect(..) panics on Err; an entry that is neither a
\* directory nor a file is dropped.
IterNext(w) ==
    /\ mainPc = "scanning"
    /\ pc[w] = "idle"
    /\ walk # <<>>
    /\ walk' = Tail(walk)
    /\ LET e == Head(walk)
       IN  IF e.kind = "error"
           THEN /\ Panic(w, "walk")
                /\ UNCHANGED cur
           ELSE /\ cur' = [cur EXCEPT ![w] = e]
                /\ pc' = [pc EXCEPT ![w] = IF e.kind \in {"dir", "file"}
                                           THEN e.kind ELSE "idle"]
                /\ UNCHANGED panicMsg
    /\ UNCHANGED <<inputVars, mainPc, storeVars, risk_files, listVars,
                   testerHolder, poisoned, logVars, driverVars>>

\* The iterator is exhausted: the pool thread is done.
IterEnd(w) ==
    /\ mainPc = "scanning"
    /\ pc[w] = "idle"
    /\ walk = <<>>
    /\ pc' = [pc EXCEPT ![w] = "done"]
    /\ UNCHANGED <<inputVars, mainPc, storeVars, risk_files, listVars, walk,
                   cur, panicMsg, testerHolder, poisoned, logVars, driverVars>>

\* found_dirs.lock().unwrap().push(dir_path)
PushDir(w) ==
    /\ pc[w] = "dir"
    /\ found_dirs' = Push(found_dirs, cur[w].path)
    /\ pc' = [pc EXCEPT ![w] = "dirlog"]
    /\ UNCHANGED <<inputVars, mainPc, storeVars, risk_files, found_files, walk,
                   cur, panicMsg, testerHolder, poisoned, logVars, driverVars>>

\* found_files.lock().unwrap().push(file_path)
PushFile(w) ==
    /\ pc[w] = "file"
    /\ found_files' = Push(found_files, cur[w].path)
    /\ pc' = [pc EXCEPT ![w] = "pushed"]
    /\ UNCHANGED <<inputVars, mainPc, storeVars, risk_files, found_dirs, walk,
                   cur, panicMsg, testerHolder, poisoned, logVars, driverVars>>

\* tester.lock().unwrap(): waits for the mutex; panics when it is poisoned.
LockTester(w) ==
    /\ pc[w] = "pushed"
    /\ testerHolder = {}
    /\ IF poisoned
       THEN /\ Panic(w, "poison")
            /\ UNCHANGED testerHolder
       ELSE /\ testerHolder' = {w}
            /\ pc' = [pc EXCEPT ![w] = "locked"]
            /\ UNCHANGED panicMsg
    /\ UNCHANGED <<inputVars, mainPc, storeVars, risk_files, listVars, walk,
                   cur, poisoned, logVars, driverVars>>

\* .compare(&file_path).unwrap() with the guard held: fs::read fails on an
\* unreadable file and the unwrap panics; hex::decode(..).expect(..) panics on
\* an undecodable signature; a panic with the guard held poisons the mutex.
\* The guard is dropped at the end of the statement.
Compare(w) ==
    /\ pc[w] = "locked"
    /\ testerHolder' = {}
    /\ LET e == cur[w]
           r == CompareLoop(iterOrder, database, e.bytes)
       IN  IF ~e.readable
           THEN /\ Panic(w, "read")
                /\ poisoned' = TRUE
                /\ UNCHANGED risk_files
           ELSE IF r.kind = "panic"
           THEN /\ Panic(w, "hex")
                /\ poisoned' = TRUE
                /\ UNCHANGED risk_files
           ELSE /\ risk_files' = IF r.kind = "match"
                                 THEN RiskInsert(risk_files, e.path, r.name)
                                 ELSE risk_files
                /\ pc' = [pc EXCEPT ![w] = "filelog"]
                /\ UNCHANGED <<panicMsg, poisoned>>
    /\ UNCHANGED <<inputVars, mainPc, storeVars, listVars, walk, cur, logVars,
                   driverVars>>

\* A pool thread that appends its line to performance.log itself.
LogEntryDirect(w) ==
    /\ pc[w] \in {"dirlog", "filelog"}
    /\ writer' = Append(writer, LogMessage(w, IF pc[w] = "dirlog" THEN "Directory"
                                                                ELSE "File", cur[w].path))
    /\ sent' = [sent EXCEPT ![w] = @ + 1]
    /\ pc' = [pc EXCEPT ![w] = "idle"]
    /\ UNCHANGED <<inputVars, mainPc, storeVars, risk_files, listVars, walk,
                   cur, panicMsg, testerHolder, poisoned, channel, consumerPc,
                   lateSend, driverVars>>

\* write_to_log(..).unwrap() of the closure: send(..).unwrap() panics when the
\* channel has no receiver; the entry is finished afterwards.
LogEntry(w) ==
    /\ pc[w] \in {"dirlog", "filelog"}
    /\ IF ReceiverAlive(consumerPc)
       THEN /\ Send(w, IF pc[w] = "dirlog" THEN "Directory" ELSE "File", cur[w].path)
            /\ pc' = [pc EXCEPT ![w] = "idle"]
            /\ UNCHANGED panicMsg
       ELSE /\ Panic(w, "send")
            /\ UNCHANGED <<channel, sent, lateSend>>
    /\ UNCHANGED <<inputVars, mainPc, storeVars, risk_files, listVars, walk,
                   cur, testerHolder, poisoned, writer, consumerPc, driverVars>>

\* A join that returns as soon as one pool thread has left the loop.
StartJoinEarly ==
    /\ mainPc = "scanning"
    /\ \E w \in Workers : pc[w] \in {"done", "panicked"}
    /\ mainPc' = IF \E w \in Workers : pc[w] = "panicked" THEN "scanPanic" ELSE "joined"
    /\ UNCHANGED <<inputVars, storeVars, risk_files, listVars, workerVars,
                   logVars, driverVars>>

\* for_each returns when every pool thread has left the loop; a panic of a
\* pool thread is resumed in the caller, so start unwinds and main panics.
StartJoin ==
    /\ mainPc = "scanning"
    /\ \A w \in Workers : pc[w] \in {"done", "panicked"}
    /\ mainPc' = IF \E w \in Workers : pc[w] = "panicked" THEN "scanPanic" ELSE "joined"
    /\ UNCHANGED <<inputVars, storeVars, risk_files, listVars, workerVars,
                   logVars, driverVars>>

\* write_to_log(.., "Total runtime: ..")?; Ok(elapsed)
StartReturn ==
    /\ mainPc = "joined"
    /\ IF ReceiverAlive(consumerPc)
       THEN /\ Send(MainThread, "Total runtime", "")
            /\ mainPc' = "returned"
            /\ scans' = scans + 1
            /\ observed' = Append(observed, risk_files)
       ELSE /\ mainPc' = "sendPanic"
            /\ UNCHANGED <<channel, sent, lateSend, scans, observed>>
    /\ UNCHANGED <<inputVars, storeVars, risk_files, listVars, workerVars,
                   writer, consumerPc, riskLog>>

\* log_risk_files and the return of main: one line per registry entry; main
\* returns the error when risk_files.log cannot be created.
LogRiskFiles ==
    /\ mainPc = "returned"
    /\ \E createOk \in BOOLEAN :
         IF createOk
         THEN /\ riskLog' = {<<p, risk_files[p]>> : p \in DOMAIN risk_files}
              /\ mainPc' = "exited"
         ELSE /\ mainPc' = "reportFailed"
              /\ UNCHANGED riskLog
    /\ UNCHANGED <<inputVars, storeVars, risk_files, listVars, workerVars,
                   logVars, scans, observed>>

Next ==
    \/ FileCompareNew
    \/ RecFileSearchNew
    \/ StartLoggingThread
    \/ StartCall
    \/ \E w \in Workers : IterNext(w)
    \/ \E w \in Workers : IterEnd(w)
    \/ \E w \in Workers : PushDir(w)
    \/ \E w \in Workers : PushFile(w)
    \/ \E w \in Workers : LockTester(w)
    \/ \E w \in Workers : Compare(w)
    \/ \E w \in Workers : LogEntry(w)
    \/ StartJoin
    \/ StartReturn
    \/ LogRiskFiles
    \/ ConsumerStep

Spec == Init /\ [][Next]_vars

SpecRescan == InitRescan /\ [][Next]_vars

-----------------------------------------------------------------------------
(* Vocabulary of the properties                                            *)

\* p is a byte-for-byte prefix of s.
IsPrefix(p, s) == Len(p) <= Len(s) /\ SubSeq(s, 1, Len(p)) = p

\* The regular files of the tree, and those whose contents can be read.
FileEntries == {tree[i] : i \in {j \in DOMAIN tree : tree[j].kind = "file"}}
ReadableFiles == {e \in FileEntries : e.readable}

\* How often x occurs in a sequence.
Occurrences(list, x) == Cardinality({i \in DOMAIN list : list[i] = x})

\* FileCompare::new has returned Ok.
Loaded == mainPc \notin {"new", "loadFailed"}

\* The stored signature `id` decodes and its bytes are a prefix of `bytes`.
SignatureMatches(id, bytes) ==
    /\ HexDecode(database[id]).ok
    /\ IsPrefix(HexDecode(database[id]).bytes, bytes)

\* The database lines of the form id=hex (exactly one '=').
SignatureLines == {i \in DOMAIN dbLines : Len(Split(dbLines[i])) = 2}
LineId(i) == Split(dbLines[i])[1]
LineHex(i) == Split(dbLines[i])[2]

\* Every message sent so far, over all sending threads.
RECURSIVE SentBy(_)
SentBy(threads) ==
    IF threads = {} THEN 0
    ELSE LET t == CHOOSE x \in threads : TRUE
         IN  sent[t] + SentBy(threads \ {t})
TotalSent == SentBy(Workers \cup {MainThread})

\* The contents of the readable file at path p.
BytesAt(p) == (CHOOSE e \in ReadableFiles : e.path = p).bytes

-----------------------------------------------------------------------------
(* C1 *)

\* C1: an unreadable file never aborts the scan: a failed read of one file
\* never makes the pool thread that processes it panic (the failure is logged
\* and the scan goes on to a normal return of start).
C1_UnreadableNeverAborts ==
    \A w \in Workers : pc[w] = "panicked" => panicMsg[w] # "read"

-----------------------------------------------------------------------------
(* C2 *)

\* C2: when a call of start has returned, found_files holds every file of the
\* tree exactly once per completed call and nothing else, so exactly M entries
\* after the first call on a fresh scanner, whatever the interleaving.
C2_FoundFilesExact ==
    mainPc = "returned" =>
        /\ Len(found_files) = scans * Cardinality(FileEntries)
        /\ \A e \in FileEntries : Occurrences(found_files, e.path) = scans

\* A first scan of a tree with more files than pool threads has returned,
\* and every pool thread has processed entries.
C2_Witness ==
    /\ mainPc = "returned"
    /\ scans = 1
    /\ Len(found_files) > NumWorkers
    /\ \A w \in Workers : sent[w] >= 1

-----------------------------------------------------------------------------
(* C3 *)

\* C3: no log line is lost at process exit: when main has returned, every
\* message passed to write_to_log has been written by the consumer.
C3_NoLogLineLostAtExit ==
    mainPc = "exited" => (channel = <<>> /\ Len(writer) = TotalSent)

-----------------------------------------------------------------------------
(* C4 *)

\* C4: FileCompare::new never returns a store that holds an undecodable hex
\* pattern.
C4_LoadRejectsUndecodable ==
    Loaded => \A id \in DOMAIN database : HexDecode(database[id]).ok

-----------------------------------------------------------------------------
(* C5 *)

\* C5: a file whose contents do not start with any stored signature pattern
\* never has an entry in risk_files, in any reachable state.
C5_NoMatchNoEntry ==
    \A e \in FileEntries :
        (~e.readable \/ ~\E id \in DOMAIN database : SignatureMatches(id, e.bytes))
            => e.path \notin DOMAIN risk_files

\* A scan has matched both a file that starts with no stored pattern and one
\* that starts with a stored pattern; only the second is in the registry.
C5_Witness ==
    /\ scans >= 1
    /\ \E e \in ReadableFiles :
         /\ ~\E id \in DOMAIN database : SignatureMatches(id, e.bytes)
         /\ Occurrences(found_files, e.path) >= 1
    /\ DOMAIN risk_files # {}

-----------------------------------------------------------------------------
(* C6 *)

\* C6 as stated: one entry per unique id, and once a scan has matched the
\* files, a file whose first bytes equal the decoded hex of a line id=hex is
\* recorded under that line's id.
C6_EveryLineRecordsItsId ==
    /\ mainPc = "loaded" => DOMAIN database = {LineId(i) : i \in SignatureLines}
    /\ scans >= 1 =>
         \A i \in SignatureLines : \A e \in ReadableFiles :
             (HexDecode(LineHex(i)).ok /\ IsPrefix(HexDecode(LineHex(i)).bytes, e.bytes))
                 => /\ e.path \in DOMAIN risk_files
                    /\ risk_files[e.path] = LineId(i)

\* C6 amended: the store FileCompare::new returns holds one entry per unique
\* id of the lines id=hex, with the hex of the last such line; once a scan has completed, every file
\* that starts with the decoded pattern of a stored entry is recorded under a
\* stored id whose decoded pattern is a prefix of the file (hence under that
\* entry's id when no other stored pattern is a prefix of the file).
C6_StoreAndMatch ==
    /\ mainPc = "loaded" =>
         LET parts == [i \in DOMAIN dbLines |-> Split(dbLines[i])]
             sigLines == {i \in DOMAIN dbLines : Len(parts[i]) = 2}
         IN  /\ DOMAIN database = {parts[i][1] : i \in sigLines}
             /\ \A i \in sigLines :
                  (\A j \in sigLines : parts[j][1] = parts[i][1] => j <= i)
                      => database[parts[i][1]] = parts[i][2]
    /\ scans >= 1 =>
         \A e \in ReadableFiles :
             (\E id \in DOMAIN database : SignatureMatches(id, e.bytes))
                 => /\ e.path \in DOMAIN risk_files
                    /\ risk_files[e.path] \in DOMAIN database
                    /\ SignatureMatches(risk_files[e.path], e.bytes)

\* A scan has completed with a store of two signatures, and a file that
\* starts with both patterns is recorded.
C6_Witness ==
    /\ scans >= 1
    /\ Cardinality(DOMAIN database) = 2
    /\ \E e \in ReadableFiles :
         /\ \A id \in DOMAIN database : SignatureMatches(id, e.bytes)
         /\ e.path \in DOMAIN risk_files

-----------------------------------------------------------------------------
(* C7 *)

\* C7: the identifier recorded for a path is the one of the first signature,
\* in the iteration order of the store, whose pattern is a prefix of the file:
\* no earlier signature of that order matches, even when later ones do.
C7_FirstMatchWins ==
    \A p \in DOMAIN risk_files :
        \E i \in DOMAIN iterOrder :
            /\ iterOrder[i] = risk_files[p]
            /\ SignatureMatches(iterOrder[i], BytesAt(p))
            /\ \A j \in 1..(i - 1) : ~SignatureMatches(iterOrder[j], BytesAt(p))

\* A file that starts with the patterns of two signatures is recorded.
C7_Witness ==
    \E p \in DOMAIN risk_files :
        Cardinality({id \in DOMAIN database : SignatureMatches(id, BytesAt(p))}) = 2

-----------------------------------------------------------------------------
(* C8 *)

\* C8: the consumer writes the messages of one sending thread in the order
\* that thread sent them, each at most once, and writes only messages that
\* were sent.
C8_PerSenderOrder ==
    /\ \A i, j \in DOMAIN writer :
         (i < j /\ writer[i].from = writer[j].from) => writer[i].seq < writer[j].seq
    /\ \A i \in DOMAIN writer : writer[i].seq <= sent[writer[i].from]

\* The log holds two messages of one pool thread with a message of the other
\* pool thread between them.
C8_Witness ==
    \E i, j, k \in DOMAIN writer :
        /\ i < k /\ k < j
        /\ writer[i].from = writer[j].from
        /\ writer[k].from # writer[i].from
        /\ writer[i].from \in Workers /\ writer[k].from \in Workers

-----------------------------------------------------------------------------
(* C9 *)

\* C9: a write failure in the log consumer never aborts the scan: once the
\* consumer has died, no write_to_log call panics, neither in a pool thread
\* nor in start itself, and a call of start that returns has still recorded
\* every directory and file of the tree.
C9_LogFailureNeverAborts ==
    consumerPc = "panicked" =>
        /\ \A w \in Workers : panicMsg[w] # "send"
        /\ mainPc # "sendPanic"
        /\ mainPc = "returned" =>
             \A i \in DOMAIN tree :
                 /\ tree[i].kind = "file" => Occurrences(found_files, tree[i].path) = scans
                 /\ tree[i].kind = "dir" => Occurrences(found_dirs, tree[i].path) = scans

\* The consumer died, messages were sent after that, and start returned with
\* a matched file in the registry.
C9_Witness ==
    /\ consumerPc = "panicked"
    /\ lateSend
    /\ mainPc = "returned"
    /\ DOMAIN risk_files # {}

-----------------------------------------------------------------------------
(* C10 *)

\* C10: the registry read after a second scan of the same directory with the
\* same database equals the registry read after the first scan.
C10_RescanSameRegistry ==
    \A i, j \in DOMAIN observed : observed[i] = observed[j]

\* Two scans have returned and the registry is not empty.
C10_Witness ==
    /\ Len(observed) >= 2
    /\ DOMAIN observed[1] # {}

-----------------------------------------------------------------------------
(* C11 *)

\* How many '=' characters a line holds.
CountEq(line) == Cardinality({i \in DOMAIN line : line[i] = "="})

\* C11: malformed database lines are tolerated: the store FileCompare::new
\* returns holds an entry exactly for the lines with one '=' (id before it,
\* hex after it); lines with no '=' or several add nothing, and a database
\* with such lines can still be loaded.
C11_MalformedLinesSkipped ==
    /\ mainPc = "new" => ENABLED (FileCompareNew /\ mainPc' = "loaded")
    /\ mainPc = "loaded" =>
         /\ \A id \in DOMAIN database :
              \E i \in DOMAIN dbLines :
                  /\ CountEq(dbLines[i]) = 1
                  /\ dbLines[i] = id \o <<"=">> \o database[id]
         /\ \A i \in DOMAIN dbLines :
              CountEq(dbLines[i]) = 1 =>
                  \E id \in DOMAIN database :
                      \E hex \in {SubSeq(dbLines[i], k, Len(dbLines[i])) :
                                     k \in 1..(Len(dbLines[i]) + 1)} :
                          dbLines[i] = id \o <<"=">> \o hex

\* A database with a line without '=', an empty line and a line with two '='
\* has been loaded, and its one well-formed line is in the store.
C11_Witness ==
    /\ mainPc = "loaded"
    /\ \E i \in DOMAIN dbLines : CountEq(dbLines[i]) = 0 /\ dbLines[i] # <<>>
    /\ \E i \in DOMAIN dbLines : dbLines[i] = <<>>
    /\ \E i \in DOMAIN dbLines : CountEq(dbLines[i]) > 1
    /\ Cardinality(DOMAIN database) = 1

-----------------------------------------------------------------------------
(* C12 *)

\* C12: every signature of a loaded store has a non-empty pattern.
C12_PatternsNonEmpty ==
    Loaded => \A id \in DOMAIN database : database[id] # <<>>

-----------------------------------------------------------------------------
(* C13 *)

\* C13: when the walk yields an Err entry (the root cannot be opened), start
\* returns the error to its caller: no pool thread panics on the entry.
C13_WalkErrorIsReturned ==
    \A w \in Workers : panicMsg[w] # "walk"

-----------------------------------------------------------------------------
(* C14 *)

\* The pool thread is inside `tester.lock().unwrap().compare(..)`: it has the
\* guard and reads the file and matches it before the statement ends.
InCompare(w) == pc[w] = "locked"

\* C14: no pool thread holds the mutex that guards the risk registry while it
\* reads a file or compares it against the signatures.
C14_NoLockAcrossMatch ==
    \A w \in Workers : InCompare(w) => w \notin testerHolder

-----------------------------------------------------------------------------
(* C15 *)

\* C15: the log consumer terminates: when main has finished and the channel
\* is empty, the consumer is no longer in its receive loop.
C15_ConsumerLoopEnds ==
    (mainPc = "exited" /\ channel = <<>>) => consumerPc # "running"

-----------------------------------------------------------------------------
(* C16 *)

\* The messages written and the messages still queued, in channel order.
AllLog == writer \o channel

\* The directories and regular files of the tree: the entries that are logged.
LoggedEntries == {i \in DOMAIN tree : tree[i].kind \in {"dir", "file"}}

\* C16: in the scan main runs, the total-runtime message is enqueued only
\* after every entry has been fully processed: when it has been sent, every
\* pool thread has left the loop and has sent the message of each entry it
\* processed; no message follows it in the channel or in the log; and start
\* has returned exactly when it has been sent.
C16_SummaryLast ==
    startCalls = 1 =>
        /\ sent[MainThread] = scans
        /\ (mainPc \in {"returned", "exited", "reportFailed"}) = (sent[MainThread] = 1)
        /\ sent[MainThread] = 1 =>
             /\ \A w \in Workers : pc[w] = "done"
             /\ SentBy(Workers) = Cardinality(LoggedEntries)
        /\ \A i \in DOMAIN AllLog :
             AllLog[i].from = MainThread => i = Len(AllLog)

\* start has returned, the consumer has written the message of every entry of
\* a tree with two files, both pool threads having sent, and then the total.
C16_Witness ==
    /\ mainPc = "returned"
    /\ Len(writer) >= 4
    /\ writer[Len(writer)].from = MainThread
    /\ \A w \in Workers : sent[w] >= 1

-----------------------------------------------------------------------------
(* C17 *)

\* C17: the findings are reported from a stable registry: once start has
\* returned, every pool thread has left the closure and none holds the tester
\* mutex, so nothing is inserted any more; risk_files.log is written only
\* after a return of start and holds the registry as it is then.
C17_ReportFromStableRegistry ==
    /\ mainPc \in {"returned", "exited", "reportFailed"} =>
         /\ \A w \in Workers : pc[w] = "done"
         /\ testerHolder = {}
         /\ \A e \in FileEntries : Occurrences(found_files, e.path) = scans
    /\ riskLog # {} =>
         /\ mainPc = "exited"
         /\ scans >= 1
         /\ riskLog = {<<p, risk_files[p]>> : p \in DOMAIN risk_files}

\* main has written risk_files.log with two findings.
C17_Witness ==
    /\ mainPc = "exited"
    /\ Cardinality(riskLog) = 2

-----------------------------------------------------------------------------
(* C18 *)

\* C18: the performance log has a single writer: every step that changes the
\* log is a step of the consumer thread, which appends the message it takes
\* from the head of the channel; no pool thread and not main moves in that
\* step, so scan threads only enqueue.
C18_SingleWriter ==
    [][writer' # writer =>
          /\ consumerPc = "running"
          /\ channel # <<>>
          /\ writer' = Append(writer, Head(channel))
          /\ channel' = Tail(channel)
          /\ pc' = pc
          /\ mainPc' = mainPc
          /\ sent' = sent]_vars

\* The log holds lines that came from both pool threads.
C18_Witness ==
    \E i, j \in DOMAIN writer :
        /\ writer[i].from \in Workers
        /\ writer[j].from \in Workers
        /\ writer[i].from # writer[j].from

-----------------------------------------------------------------------------
(* C19 *)

\* C19: every path that is a key of the risk registry is the path of a
\* regular file of the tree and is already in found_files; no directory and
\* no other entry has a registry entry.
C19_RiskyPathsWereFound ==
    \A p \in DOMAIN risk_files :
        /\ Occurrences(found_files, p) >= 1
        /\ \E e \in FileEntries : e.path = p
        /\ Occurrences(found_dirs, p) = 0

\* During a scan a file is in the registry while the directory is recorded
\* and another file has not been pushed yet.
C19_Witness ==
    /\ mainPc = "scanning"
    /\ DOMAIN risk_files # {}
    /\ found_dirs # <<>>
    /\ \E e \in FileEntries : Occurrences(found_files, e.path) = 0

-----------------------------------------------------------------------------
(* C20 *)

\* C20: on a tree whose entries are all readable the scan runs to a return of
\* start: start never unwinds with the panic of a pool thread.
C20_ReadableScanReturns ==
    (\A i \in DOMAIN tree :
        tree[i].kind # "error" /\ (tree[i].kind = "file" => tree[i].readable))
            => mainPc # "scanPanic"

====
